---- MODULE Spec2Model ----
(***************************************************************************)
(* A model of src/get_games.py: the GetGames crawler.                      *)
(*                                                                         *)
(* The main thread (get_all_years -> get_year -> get_month / _get_games)   *)
(* starts one thread per day (get_day) and, once per year, one process per *)
(* core (_get_game).  Threads and workers are interleaved one source line  *)
(* (or one library call) at a time.  The archive (gd2.mlb.com), the disk   *)
(* and the parser library are the environment.                             *)
(*                                                                         *)
(* Strings are modelled by what split() sees of them: a string that is     *)
(* split on a separator is the sequence of its pieces, a piece being a     *)
(* sequence of characters / character chunks.  So 'a/b/' is                *)
(* <<<<"a">>, <<"b">>, <<>>>>, and None is <<>> (no piece at all).         *)
(***************************************************************************)
EXTENDS Integers, Sequences, FiniteSets, TLC

\* ------------------------------------------------------------------ bounds
\* mp.cpu_count() of the machine a crawl runs on is one of 1..NumCpus: the
\* number of sessions, of workers, and the modulus of the session index of a
\* day thread.
NumCpus == 2
\* get_all_years runs range(2007, curr_year + 1): NumYears years.
NumYears == 2
\* get_year runs NumMonths months of a year (range(1, 13) in the source).
NumMonths == 1
\* calendar.monthrange(...)[1]: days of a month.
NumDays == 2
\* the archive holds at most MaxAnchors game anchors over all its listings.
MaxAnchors == 3
\* the program is run at most MaxRuns times on the same disk.
MaxRuns == 2
\* at most MaxFaults network or disk calls raise an error, over all runs.
MaxFaults == 1
\* the archives of the single-run specification hold at most MaxLiveAnchors
\* anchors.
MaxLiveAnchors == 2
\* a client of the object calls get_month at most MaxCalls times.
MaxCalls == 2
\* mp.cpu_count() of the machine a GetGames object is constructed on is one
\* of 1..MaxCpus.
MaxCpus == 21

\* ------------------------------------------------------- program constants
FirstYear == 2007

\* ------------------------------------------------------------------ strings
None == <<>>

DigitChar == <<"0", "1", "2", "3", "4", "5", "6", "7", "8", "9">>

RECURSIVE str(_)
\* str(n) of a non-negative int: its decimal digits.
str(n) == IF n < 10 THEN <<DigitChar[n + 1]>>
          ELSE str(n \div 10) \o <<DigitChar[(n % 10) + 1]>>

\* format(n, '02d'): at least two digits, zero padded.
format02d(n) == IF n < 10 THEN <<"0">> \o str(n) ELSE str(n)

\* not x, for a string or None: None and '' are falsy.
Falsy(x) == x = <<>> \/ x = <<<<>>>>

\* a + b for strings given by their '/'-pieces: the last piece of a and the
\* first piece of b are one piece of the sum.
StrCat(a, b) ==
    SubSeq(a, 1, Len(a) - 1) \o <<a[Len(a)] \o b[1]>> \o SubSeq(b, 2, Len(b))

\* s[-n:] of a list.
LastN(s, n) == IF Len(s) <= n THEN s ELSE SubSeq(s, Len(s) - n + 1, Len(s))

\* self.home = 'http://gd2.mlb.com/components/game/mlb/'
home == <<<<"http:">>, <<>>, <<"gd2.mlb.com">>, <<"components">>,
          <<"game">>, <<"mlb">>, <<>>>>

\* 'year_{}/month_{}/day_{}/'.format(y, m, d)
DayPath(yy, mm, dd) ==
    <<<<"year_">> \o yy, <<"month_">> \o mm, <<"day_">> \o dd, <<>>>>

\* the url of get_day: self.home + 'year_{}/month_{}/day_{}/'.format(...)
DayUrl(yy, mm, dd) == StrCat(home, DayPath(yy, mm, dd))

\* the href of the anchor of game g in a listing: 'gid_<g>/'
Href(g) == <<<<"gid_">> \o str(g), <<>>>>

\* Mutant of DirOf: the path is joined from the last four pieces.
DirOfFour(game) == LastN(game, 4)

\* '/'.join(game.split('/')[-5:]): the persistence path of a game url.
DirOf(game) == LastN(game, 5)

\* ------------------------------------------------------------ environment
\* The years get_all_years visits: range(2007, curr_year + 1).
Years == FirstYear .. (FirstYear + NumYears - 1)

\* calendar.monthrange(y, m)[1], the number of days of the month.
monthrange(y, m) == NumDays

\* The day listings the archive serves.
ArchiveDays ==
    { DayUrl(str(yi), format02d(mi), format02d(di)) :
        yi \in Years, mi \in 1..NumMonths, di \in 1..NumDays }

\* A day listing is the list of its game anchors, in page order; an anchor
\* may occur twice.  Game ids are numbered in order of first appearance.
RECURSIVE Listings(_)
Listings(n) ==
    IF n = 0 THEN {<<>>}
    ELSE UNION { { Append(l, g) :
                     g \in 1..(Cardinality({l[k] : k \in 1..(n - 1)}) + 1) } :
                 l \in Listings(n - 1) }

RECURSIVE ArchiveRows(_, _)
\* The listings of the first k days, holding at most budget anchors in all.
ArchiveRows(k, budget) ==
    IF k = 0 THEN {<<>>}
    ELSE UNION { UNION { { Append(a, l) : a \in ArchiveRows(k - 1, budget - n) } :
                         l \in Listings(n) } :
                 n \in 0..budget }

\* The k-th day the archive serves (k from 1), in calendar order.
DayAt(k) ==
    DayUrl(str(FirstYear + ((k - 1) \div (NumMonths * NumDays))),
           format02d((((k - 1) \div NumDays) % NumMonths) + 1),
           format02d(((k - 1) % NumDays) + 1))

Archives ==
    { [u \in ArchiveDays |-> rows[CHOOSE k \in DOMAIN rows : DayAt(k) = u]] :
        rows \in ArchiveRows(NumYears * NumMonths * NumDays, MaxAnchors) }

\* ------------------------------------------------------------------ state
VARIABLES
    archive,    \* environment: day url -> listing (fixed over all runs)
    soupOK,     \* environment: BeautifulSoup(<Response>, 'lxml') returns
    run,        \* environment: the number of this run of the program
    cpu_count,  \* environment: mp.cpu_count()
    calls,      \* environment: calls a client has made on the object
    sessions,   \* self.sessions: [proxies |-> port of the socks5 proxy]
    dirs,       \* disk: the directories that exist
    files,      \* disk: <<directory, file name>> of the files that exist
    year,       \* self.year
    month,      \* self.month
    tasks,      \* self.tasks, the mp.Queue: [t |-> ticket, item |-> url / None]
    opc,        \* main thread: the loop it stands in
    yr,         \* main thread: year of get_all_years' loop
    mo,         \* main thread: month of get_year's loop
    idx,        \* main thread: index of the loop it stands in
    threads,    \* get_month's threads, one record per started get_day
    workers,    \* _get_games' workers, one record per started _get_game
    putLog,     \* history: every put of this run, [item, yr], ticket = index
    popLog,     \* history: every get of this run, [t, yr]
    persisted,  \* history: tickets whose two documents were written
    failed,     \* history: the kinds of failure of this run
    fetches,    \* history: document fetches workers made in this run
    playersOk,  \* history: urls whose players.xml was fetched in this run
    playersFail,\* history: urls whose players.xml fetch failed in this run
    faults,     \* history: transport / OS errors raised so far, all runs
    prevFailed, \* history: failed, of the previous run
    prevTree,   \* history: <<dirs, files>> at the end of the previous run
    retry       \* history: playersFail \ playersOk of the previous run

envVars == <<archive, soupOK, run, cpu_count, calls>>
diskVars == <<dirs, files>>
selfVars == <<year, month, sessions>>
mainVars == <<opc, yr, mo, idx>>
queueVars == <<tasks, putLog>>
histVars == <<popLog, persisted, failed, fetches, playersOk, playersFail>>
prevVars == <<prevFailed, prevTree, retry>>
vars == <<envVars, diskVars, selfVars, mainVars, queueVars, histVars,
          prevVars, faults, threads, workers>>

Finished == {"done", "dead"}

\* --------------------------------------------------------- construction
\* all_proxies = [9050] + list(range(9052, 9071)), indexed from 1.
all_proxies == <<9050>> \o [k \in 1..19 |-> 9051 + k]

\* requests.Session(): a session without proxies.
Session == [proxies |-> None]

\* self.sessions after __init__ on a machine of n cores, when setup_sessions
\* and setup_proxies have returned.
Constructed(n) == [i \in 1..n |-> [proxies |-> all_proxies[i]]]

\* GetGames.__init__ (the object a run constructs) and the entry into
\* get_all_years.
Fresh ==
    /\ year = None
    /\ month = None
    /\ tasks = <<>>
    /\ opc = "get_all_years"
    /\ yr = FirstYear
    /\ mo = 1
    /\ idx = 0
    /\ threads = <<>>
    /\ workers = <<>>
    /\ putLog = <<>>
    /\ popLog = <<>>
    /\ persisted = {}
    /\ failed = {}
    /\ fetches = 0
    /\ playersOk = {}
    /\ playersFail = {}

Init ==
    /\ archive \in Archives
    /\ soupOK \in BOOLEAN
    /\ run = 1
    /\ cpu_count \in 1..NumCpus
    /\ calls = 0
    /\ sessions = Constructed(cpu_count)
    /\ dirs = {}
    /\ files = {}
    /\ prevFailed = {}
    /\ prevTree = <<{}, {}>>
    /\ retry = {}
    /\ faults = 0
    /\ Fresh

\* A transport or OS error is raised: at most MaxFaults over all runs.
Raise ==
    /\ faults < MaxFaults
    /\ faults' = faults + 1

\* ------------------------------------------------------------ the queue
\* self.tasks.put(item)
Put(item) ==
    /\ tasks' = Append(tasks, [t |-> Len(putLog) + 1, item |-> item])
    /\ putLog' = Append(putLog, [item |-> item, yr |-> yr])

\* what self.tasks.get() leaves on the queue
AfterGet(q) == Tail(q)

\* Mutant of exists: the dedup check never finds the directory.
existsNever(path) == FALSE

\* Mutant of exists: the dedup check asks for both documents.
existsComplete(path) ==
    /\ path \in dirs
    /\ <<path, "players.xml">> \in files
    /\ <<path, "inning_all.xml">> \in files

\* os.path.exists(path)
exists(path) == path \in dirs

\* ------------------------------------------------------- the main thread
\* get_all_years: the head of `for year in range(2007, curr_year + 1)`; in
\* the loop, the call get_year(str(year)).
get_all_years ==
    /\ opc = "get_all_years"
    /\ opc' = IF yr \in Years THEN "get_year" ELSE "exit"
    /\ UNCHANGED <<envVars, diskVars, selfVars, yr, mo, idx, queueVars,
                   histVars, prevVars, faults, threads, workers>>

\* get_year, lines 100-101: year = str(year); self.year = year.
get_year ==
    /\ opc = "get_year"
    /\ year' = str(yr)
    /\ mo' = 1
    /\ opc' = "get_year_loop"
    /\ UNCHANGED <<envVars, diskVars, month, sessions, yr, idx, queueVars,
                   histVars, prevVars, faults, threads, workers>>

\* get_year, lines 102-106: the head of `for month in range(1, 13)`; in the
\* loop, self.month = month and the call get_month(year + '-' + month); after
\* it, the return into get_all_years, which calls _get_games.
get_year_loop ==
    /\ opc = "get_year_loop"
    /\ IF mo <= NumMonths
         THEN /\ month' = format02d(mo)
              /\ opc' = "get_month"
              /\ idx' = idx
         ELSE /\ opc' = "_get_games_put"
              /\ idx' = 0
              /\ UNCHANGED month
    /\ UNCHANGED <<envVars, diskVars, year, sessions, yr, mo, queueVars,
                   histVars, prevVars, faults, threads, workers>>

\* The argument of get_month, split on '-': date = month.split('-').
MonthArg == <<str(yr), format02d(mo)>>

\* days[k] of get_month (k from 0), split on '-'.
DayArg(k) == Append(MonthArg, format02d(k + 1))

\* get_month, lines 118-125: date = month.split('-'); self.year and
\* self.month are taken from it when self.year is not set; the days are
\* listed and threads = [].
get_month ==
    /\ opc = "get_month"
    /\ IF Falsy(year)
         THEN /\ year' = MonthArg[1]
              /\ month' = MonthArg[2]
         ELSE UNCHANGED <<year, month>>
    /\ threads' = <<>>
    /\ idx' = 0
    /\ opc' = "get_month_start"
    /\ UNCHANGED <<envVars, diskVars, sessions, yr, mo, queueVars, histVars,
                   prevVars, faults, workers>>

\* Mutant of SessionOfDay: the index of the day is passed as it is.
SessionOfDayRaw(index) == index

\* get_month, line 127: index = index % mp.cpu_count().
SessionOfDay(index) == index % cpu_count

\* Mutant of get_month_start: the loop runs one day past the month.
get_month_start_extra ==
    /\ opc = "get_month_start"
    /\ IF idx <= monthrange(year, month)
         THEN /\ threads' = Append(threads,
                    [pc |-> "fetch", date |-> DayArg(idx),
                     session_num |-> SessionOfDay(idx), url |-> None,
                     games |-> <<>>, cause |-> "none"])
              /\ idx' = idx + 1
              /\ opc' = opc
         ELSE /\ idx' = 0
              /\ opc' = "get_month_join"
              /\ UNCHANGED threads
    /\ UNCHANGED <<envVars, diskVars, selfVars, yr, mo, queueVars, histVars,
                   prevVars, faults, workers>>

\* get_month: `for index, day in enumerate(days)`: one thread is created and
\* started with (day, index % mp.cpu_count()).
get_month_start ==
    /\ opc = "get_month_start"
    /\ IF idx < monthrange(year, month)
         THEN /\ threads' = Append(threads,
                    [pc |-> "fetch", date |-> DayArg(idx),
                     session_num |-> SessionOfDay(idx), url |-> None,
                     games |-> <<>>, cause |-> "none"])
              /\ idx' = idx + 1
              /\ opc' = opc
         ELSE /\ idx' = 0
              /\ opc' = "get_month_join"
              /\ UNCHANGED threads
    /\ UNCHANGED <<envVars, diskVars, selfVars, yr, mo, queueVars, histVars,
                   prevVars, faults, workers>>

\* Mutant of ThreadJoined: get_month does not wait for its threads.
ThreadJoinedNoWait(th) == TRUE

\* thread.join() returns once the thread has ended, by return or by an
\* uncaught exception.
ThreadJoined(th) == th.pc \in Finished

\* get_month: `for thread in threads: thread.join()`.
get_month_join ==
    /\ opc = "get_month_join"
    /\ idx < Len(threads)
    /\ ThreadJoined(threads[idx + 1])
    /\ idx' = idx + 1
    /\ UNCHANGED <<envVars, diskVars, selfVars, opc, yr, mo, queueVars,
                   histVars, prevVars, faults, threads, workers>>

\* get_month returns into get_year's loop.
get_month_return ==
    /\ opc = "get_month_join"
    /\ idx = Len(threads)
    /\ mo' = mo + 1
    /\ opc' = "get_year_loop"
    /\ UNCHANGED <<envVars, diskVars, selfVars, yr, idx, queueVars, histVars,
                   prevVars, faults, threads, workers>>

\* Mutant of NumSentinels: one sentinel too few.
NumSentinelsShort == cpu_count - 1

\* The number of sentinels _get_games puts: range(mp.cpu_count()).
NumSentinels == cpu_count

\* _get_games: `for _ in range(mp.cpu_count()): self.tasks.put(None)`, then
\* `workers = []`.
_get_games_put ==
    /\ opc = "_get_games_put"
    /\ IF idx < NumSentinels
         THEN /\ Put(None)
              /\ idx' = idx + 1
              /\ UNCHANGED <<opc, workers>>
         ELSE /\ workers' = <<>>
              /\ idx' = 0
              /\ opc' = "_get_games_start"
              /\ UNCHANGED queueVars
    /\ UNCHANGED <<envVars, diskVars, selfVars, yr, mo, histVars, prevVars, faults,
                   threads>>

\* Mutant of SessionOfWorker: every worker is given session 0.
SessionOfWorkerZero(k) == 0

\* _get_games, line 215: args=(_,), the loop variable of range(cpu_count).
SessionOfWorker(k) == k

\* _get_games: one mp.Process per core is created and started with (_,).
_get_games_start ==
    /\ opc = "_get_games_start"
    /\ IF idx < cpu_count
         THEN /\ workers' = Append(workers,
                    [pc |-> "get", session_num |-> SessionOfWorker(idx),
                     game_url |-> None,
                     t |-> 0, cause |-> "none"])
              /\ idx' = idx + 1
              /\ opc' = opc
         ELSE /\ idx' = 0
              /\ opc' = "_get_games_join"
              /\ UNCHANGED workers
    /\ UNCHANGED <<envVars, diskVars, selfVars, yr, mo, queueVars, histVars,
                   prevVars, faults, threads>>

\* Mutant of WorkerJoined: _get_games does not wait for its workers.
WorkerJoinedNoWait(wk) == TRUE

\* worker.join() returns once the process has exited, by return or by an
\* uncaught exception.
WorkerJoined(wk) == wk.pc \in Finished

\* _get_games: `for worker in workers: worker.join()`.
_get_games_join ==
    /\ opc = "_get_games_join"
    /\ idx < Len(workers)
    /\ WorkerJoined(workers[idx + 1])
    /\ idx' = idx + 1
    /\ UNCHANGED <<envVars, diskVars, selfVars, opc, yr, mo, queueVars,
                   histVars, prevVars, faults, threads, workers>>

\* _get_games: the joins are over; `for worker in workers: worker.terminate()`
\* finds every process exited.
_get_games_joined ==
    /\ opc = "_get_games_join"
    /\ idx = Len(workers)
    /\ opc' = "_get_games_terminate"
    /\ UNCHANGED <<envVars, diskVars, selfVars, yr, mo, idx, queueVars,
                   histVars, prevVars, faults, threads, workers>>

\* _get_games returns into get_all_years' loop.
_get_games_return ==
    /\ opc = "_get_games_terminate"
    /\ yr' = yr + 1
    /\ opc' = "get_all_years"
    /\ UNCHANGED <<envVars, diskVars, selfVars, mo, idx, queueVars, histVars,
                   prevVars, faults, threads, workers>>

\* ------------------------------------------------------- get_day threads
Threads == 1..Len(threads)

\* The listing the archive serves at url: the page of a day it holds, and a
\* page without game anchors for any other url.
ListingAt(url) == IF url \in DOMAIN archive THEN archive[url] ELSE <<>>

\* games = [url + game['href'] for game in games]
GamesOf(url) ==
    [k \in 1..Len(ListingAt(url)) |-> StrCat(url, Href(ListingAt(url)[k]))]

\* get_day, lines 150-153: date = date.split('-'); self.year and self.month
\* are taken from it when self.month is not set.  <<self.year, self.month>>
\* after these lines.
SelfOf(th) ==
    IF Falsy(month) THEN <<th.date[1], th.date[2]>> ELSE <<year, month>>

\* The url get_day builds (lines 154-157) from self.year, self.month and the
\* day of its date.
UrlOf(th) == DayUrl(SelfOf(th)[1], SelfOf(th)[2], th.date[3])

\* get_day, lines 149-161: session.get(url) returns the listing page and the
\* game urls are built from its anchors.
get_day_fetch(i) ==
    /\ i \in Threads
    /\ threads[i].pc = "fetch"
    /\ year' = SelfOf(threads[i])[1]
    /\ month' = SelfOf(threads[i])[2]
    /\ threads' = [threads EXCEPT ![i].pc = "loop",
                                  ![i].url = UrlOf(threads[i]),
                                  ![i].games = GamesOf(UrlOf(threads[i]))]
    /\ UNCHANGED <<envVars, diskVars, sessions, mainVars, queueVars,
                   histVars, prevVars, faults, workers>>

\* Mutant of get_day_fetch_fail: the exception of one thread ends every
\* thread get_month has started.
get_day_fetch_fail_all(i) ==
    /\ i \in Threads
    /\ threads[i].pc = "fetch"
    /\ Raise
    /\ year' = SelfOf(threads[i])[1]
    /\ month' = SelfOf(threads[i])[2]
    /\ threads' = [j \in Threads |->
                     IF j = i
                       THEN [threads[j] EXCEPT !.pc = "dead",
                                               !.url = UrlOf(threads[j]),
                                               !.cause = "fetch"]
                       ELSE [threads[j] EXCEPT !.pc = "dead"]]
    /\ failed' = failed \cup {"listing"}
    /\ UNCHANGED <<envVars, diskVars, sessions, mainVars, queueVars, popLog,
                   persisted, fetches, playersOk, playersFail,
                   prevVars, workers>>

\* get_day, lines 149-158: session.get(url) raises (a transport error);
\* nothing catches it and the thread ends.
get_day_fetch_fail(i) ==
    /\ i \in Threads
    /\ threads[i].pc = "fetch"
    /\ Raise
    /\ year' = SelfOf(threads[i])[1]
    /\ month' = SelfOf(threads[i])[2]
    /\ threads' = [threads EXCEPT ![i].pc = "dead",
                                  ![i].url = UrlOf(threads[i]),
                                  ![i].cause = "fetch"]
    /\ failed' = failed \cup {"listing"}
    /\ UNCHANGED <<envVars, diskVars, sessions, mainVars, queueVars, popLog,
                   persisted, fetches, playersOk, playersFail,
                   prevVars, workers>>

\* get_day, lines 162-164: the head of `for game in games`, and the check
\* `if os.path.exists('/'.join(game.split('/')[-5:])): continue`.
get_day_loop(i) ==
    /\ i \in Threads
    /\ threads[i].pc = "loop"
    /\ IF threads[i].games = <<>>
         THEN threads' = [threads EXCEPT ![i].pc = "done"]
         ELSE IF exists(DirOf(Head(threads[i].games)))
                THEN threads' = [threads EXCEPT
                                   ![i].games = Tail(threads[i].games)]
                ELSE threads' = [threads EXCEPT ![i].pc = "put"]
    /\ UNCHANGED <<envVars, diskVars, selfVars, mainVars, queueVars, popLog,
                   persisted, failed, fetches, playersOk, playersFail,
                   prevVars, faults, workers>>

\* get_day, line 165: self.tasks.put(game).
get_day_put(i) ==
    /\ i \in Threads
    /\ threads[i].pc = "put"
    /\ Put(Head(threads[i].games))
    /\ threads' = [threads EXCEPT ![i].pc = "loop",
                                  ![i].games = Tail(threads[i].games)]
    /\ UNCHANGED <<envVars, diskVars, selfVars, mainVars, histVars, prevVars, faults,
                   workers>>

\* ------------------------------------------------------ _get_game workers
Workers == 1..Len(workers)

\* An uncaught exception ends the worker's process.
Die(w, why) ==
    /\ workers' = [workers EXCEPT ![w].pc = "dead", ![w].cause = why]
    /\ failed' = failed \cup {why}

\* Mutant of _get_game_get: on a sentinel the loop goes on (`continue`)
\* where the code has `break`.
_get_game_get_continue(w) ==
    /\ w \in Workers
    /\ workers[w].pc = "get"
    /\ tasks # <<>>
    /\ tasks' = AfterGet(tasks)
    /\ popLog' = Append(popLog, [t |-> Head(tasks).t, yr |-> yr])
    /\ IF Falsy(Head(tasks).item)
         THEN workers' = [workers EXCEPT ![w].pc = "get",
                                         ![w].t = Head(tasks).t]
         ELSE workers' = [workers EXCEPT ![w].pc = "players",
                                         ![w].game_url = Head(tasks).item,
                                         ![w].t = Head(tasks).t]
    /\ UNCHANGED <<envVars, diskVars, selfVars, mainVars, putLog, persisted,
                   failed, fetches, playersOk, playersFail,
                   prevVars, faults, threads>>

\* _get_game, lines 176-178: game_url = self.tasks.get() blocks until the
\* queue holds an item; `if not game_url: break`.
_get_game_get(w) ==
    /\ w \in Workers
    /\ workers[w].pc = "get"
    /\ tasks # <<>>
    /\ tasks' = AfterGet(tasks)
    /\ popLog' = Append(popLog, [t |-> Head(tasks).t, yr |-> yr])
    /\ IF Falsy(Head(tasks).item)
         THEN workers' = [workers EXCEPT ![w].pc = "done"]
         ELSE workers' = [workers EXCEPT ![w].pc = "players",
                                         ![w].game_url = Head(tasks).item,
                                         ![w].t = Head(tasks).t]
    /\ UNCHANGED <<envVars, diskVars, selfVars, mainVars, putLog, persisted,
                   failed, fetches, playersOk, playersFail,
                   prevVars, faults, threads>>

\* _get_game, lines 181 and 183: BeautifulSoup(<Response>, 'lxml').  The
\* argument is the Response object, not its text (get_day passes
\* day_page.text); what the parser does with it is the library's choice,
\* soupOK: it returns a document and the worker goes on to `next`, or it
\* raises TypeError (bs4 takes len() of its markup, and a Response has none)
\* and nothing catches it.
BeautifulSoup(w, next) ==
    IF soupOK
      THEN /\ workers' = [workers EXCEPT ![w].pc = next]
           /\ UNCHANGED failed
      ELSE Die(w, "TypeError")

\* _get_game, lines 180-181: session.get(game_url + 'players.xml') returns,
\* and the response is parsed.
_get_game_players(w) ==
    /\ w \in Workers
    /\ workers[w].pc = "players"
    /\ BeautifulSoup(w, "innings")
    /\ fetches' = fetches + 1
    /\ playersOk' = playersOk \cup {workers[w].game_url}
    /\ UNCHANGED <<envVars, diskVars, selfVars, mainVars, queueVars, popLog,
                   persisted, playersFail, prevVars, faults, threads>>

\* Mutant of _get_game_players_fail: the directory is made before the fetch.
_get_game_players_fail_mkdir(w) ==
    /\ w \in Workers
    /\ workers[w].pc = "players"
    /\ Raise
    /\ Die(w, "fetch")
    /\ fetches' = fetches + 1
    /\ playersFail' = playersFail \cup {workers[w].game_url}
    /\ dirs' = dirs \cup {DirOf(workers[w].game_url)}
    /\ UNCHANGED <<envVars, files, selfVars, mainVars, queueVars, popLog,
                   persisted, playersOk, prevVars, threads>>

\* _get_game, line 180: session.get raises; nothing catches it.
_get_game_players_fail(w) ==
    /\ w \in Workers
    /\ workers[w].pc = "players"
    /\ Raise
    /\ Die(w, "fetch")
    /\ fetches' = fetches + 1
    /\ playersFail' = playersFail \cup {workers[w].game_url}
    /\ UNCHANGED <<envVars, diskVars, selfVars, mainVars, queueVars, popLog,
                   persisted, playersOk, prevVars, threads>>

\* _get_game, lines 182-183: session.get(game_url + 'inning/inning_all.xml')
\* returns, and the response is parsed.
_get_game_innings(w) ==
    /\ w \in Workers
    /\ workers[w].pc = "innings"
    /\ BeautifulSoup(w, "makedirs")
    /\ fetches' = fetches + 1
    /\ UNCHANGED <<envVars, diskVars, selfVars, mainVars, queueVars, popLog,
                   persisted, playersOk, playersFail, prevVars, faults,
                   threads>>

\* _get_game, line 182: session.get raises; nothing catches it.
_get_game_innings_fail(w) ==
    /\ w \in Workers
    /\ workers[w].pc = "innings"
    /\ Raise
    /\ Die(w, "fetch")
    /\ fetches' = fetches + 1
    /\ UNCHANGED <<envVars, diskVars, selfVars, mainVars, queueVars, popLog,
                   persisted, playersOk, playersFail, prevVars, threads>>

\* Mutant of _get_game_makedirs: the directory is joined from the last four
\* pieces of the url, not the five of the dedup check.
_get_game_makedirs_four(w) ==
    /\ w \in Workers
    /\ workers[w].pc = "makedirs"
    /\ dirs' = dirs \cup {LastN(workers[w].game_url, 4)}
    /\ workers' = [workers EXCEPT ![w].pc = "write_players"]
    /\ UNCHANGED <<envVars, files, selfVars, mainVars, queueVars, histVars,
                   prevVars, faults, threads>>

\* _get_game, lines 184-185: os.makedirs(directory, exist_ok=True).
_get_game_makedirs(w) ==
    /\ w \in Workers
    /\ workers[w].pc = "makedirs"
    /\ dirs' = dirs \cup {DirOf(workers[w].game_url)}
    /\ workers' = [workers EXCEPT ![w].pc = "write_players"]
    /\ UNCHANGED <<envVars, files, selfVars, mainVars, queueVars, histVars,
                   prevVars, faults, threads>>

\* _get_game, lines 186-189: one document is opened and written; after the
\* second the loop goes back to self.tasks.get().
_get_game_write(w) ==
    /\ w \in Workers
    /\ workers[w].pc \in {"write_players", "write_innings"}
    /\ IF workers[w].pc = "write_players"
         THEN /\ files' = files \cup
                    {<<DirOf(workers[w].game_url), "players.xml">>}
              /\ workers' = [workers EXCEPT ![w].pc = "write_innings"]
              /\ UNCHANGED persisted
         ELSE /\ files' = files \cup
                    {<<DirOf(workers[w].game_url), "inning_all.xml">>}
              /\ workers' = [workers EXCEPT ![w].pc = "get"]
              /\ persisted' = persisted \cup {workers[w].t}
    /\ UNCHANGED <<envVars, dirs, selfVars, mainVars, queueVars, popLog,
                   failed, fetches, playersOk, playersFail,
                   prevVars, faults, threads>>

\* _get_game, lines 186-189: open() raises (OSError) and the document is
\* not written; nothing catches it.
_get_game_write_fail(w) ==
    /\ w \in Workers
    /\ workers[w].pc \in {"write_players", "write_innings"}
    /\ Raise
    /\ Die(w, "write")
    /\ UNCHANGED <<envVars, diskVars, selfVars, mainVars, queueVars, popLog,
                   persisted, fetches, playersOk, playersFail,
                   prevVars, threads>>

\* ------------------------------------------------------------ environment
\* The program has returned and is run again: a new process and a new
\* GetGames object, on the disk the run before left.
Restart ==
    /\ opc = "exit"
    /\ run < MaxRuns
    /\ run' = run + 1
    /\ prevFailed' = failed
    /\ prevTree' = <<dirs, files>>
    /\ retry' = playersFail \ playersOk
    /\ year' = None
    /\ month' = None
    /\ tasks' = <<>>
    /\ opc' = "get_all_years"
    /\ yr' = FirstYear
    /\ mo' = 1
    /\ idx' = 0
    /\ threads' = <<>>
    /\ workers' = <<>>
    /\ putLog' = <<>>
    /\ popLog' = <<>>
    /\ persisted' = {}
    /\ failed' = {}
    /\ fetches' = 0
    /\ playersOk' = {}
    /\ playersFail' = {}
    /\ sessions' = Constructed(cpu_count)
    /\ UNCHANGED <<archive, soupOK, cpu_count, calls, diskVars, faults>>

\* ------------------------------------------------------------ specification
MainStep ==
    \/ get_all_years
    \/ get_year
    \/ get_year_loop
    \/ get_month
    \/ get_month_start
    \/ get_month_join
    \/ get_month_return
    \/ _get_games_put
    \/ _get_games_start
    \/ _get_games_join
    \/ _get_games_joined
    \/ _get_games_return

ThreadStep(i) ==
    \/ get_day_fetch(i)
    \/ get_day_fetch_fail(i)
    \/ get_day_loop(i)
    \/ get_day_put(i)

WorkerStep(w) ==
    \/ _get_game_get(w)
    \/ _get_game_players(w)
    \/ _get_game_players_fail(w)
    \/ _get_game_innings(w)
    \/ _get_game_innings_fail(w)
    \/ _get_game_makedirs(w)
    \/ _get_game_write(w)
    \/ _get_game_write_fail(w)

Next ==
    \/ MainStep
    \/ \E i \in 1..NumDays : ThreadStep(i)
    \/ \E w \in 1..NumCpus : WorkerStep(w)
    \/ Restart

Spec == Init /\ [][Next]_vars

\* The number of anchors of an archive.
RECURSIVE SumLen(_, _)
SumLen(f, S) ==
    IF S = {} THEN 0
    ELSE LET u == CHOOSE x \in S : TRUE IN Len(f[u]) + SumLen(f, S \ {u})
Anchors(a) == SumLen(a, DOMAIN a)

\* One run of the program, from the construction of GetGames to the return
\* of get_all_years, on an archive of at most MaxLiveAnchors anchors.
RunInit == Init /\ Anchors(archive) <= MaxLiveAnchors

RunNext ==
    \/ MainStep
    \/ \E i \in 1..NumDays : ThreadStep(i)
    \/ \E w \in 1..NumCpus : WorkerStep(w)

\* The scheduler runs every thread and process that can take a step, and
\* every library call returns or raises.
FairSpec ==
    /\ RunInit
    /\ [][RunNext]_vars
    /\ WF_vars(MainStep)
    /\ \A i \in 1..NumDays : WF_vars(ThreadStep(i))
    /\ \A w \in 1..NumCpus : WF_vars(WorkerStep(w))

\* ---------------------------------------------- construction, step by step
\* setup_sessions: `for _ in range(mp.cpu_count()):
\* self.sessions.append(requests.Session())`.
setup_sessions ==
    /\ opc = "setup_sessions"
    /\ IF idx < cpu_count
         THEN /\ sessions' = Append(sessions, Session)
              /\ idx' = idx + 1
              /\ opc' = opc
         ELSE /\ idx' = 0
              /\ opc' = "setup_proxies"
              /\ UNCHANGED sessions
    /\ UNCHANGED <<envVars, diskVars, year, month, yr, mo, queueVars,
                   histVars, prevVars, faults, threads, workers>>

\* setup_proxies: `for index, session in enumerate(self.sessions)`:
\* proxy = all_proxies[index] raises IndexError past the end of the list;
\* otherwise the session's proxies are set to that port.  After the loop
\* __init__ sets year, month, home and tasks and returns.
setup_proxies ==
    /\ opc = "setup_proxies"
    /\ IF idx < Len(sessions)
         THEN IF idx + 1 \in DOMAIN all_proxies
                THEN /\ sessions' = [sessions EXCEPT
                                       ![idx + 1].proxies = all_proxies[idx + 1]]
                     /\ idx' = idx + 1
                     /\ opc' = opc
                ELSE /\ opc' = "IndexError"
                     /\ UNCHANGED <<sessions, idx>>
         ELSE /\ idx' = 0
              /\ opc' = "constructed"
              /\ UNCHANGED sessions
    /\ UNCHANGED <<envVars, diskVars, year, month, yr, mo, queueVars,
                   histVars, prevVars, faults, threads, workers>>

\* The archive without games.
EmptyArchive == [u \in ArchiveDays |-> <<>>]

\* GetGames() is called on a machine of 1..MaxCpus cores: the state at
\* line 32, self.sessions = [].
CtorInit ==
    /\ archive = EmptyArchive
    /\ soupOK \in BOOLEAN
    /\ run = 1
    /\ cpu_count \in 1..MaxCpus
    /\ calls = 0
    /\ sessions = <<>>
    /\ dirs = {}
    /\ files = {}
    /\ year = None
    /\ month = None
    /\ tasks = <<>>
    /\ opc = "setup_sessions"
    /\ yr = FirstYear
    /\ mo = 1
    /\ idx = 0
    /\ threads = <<>>
    /\ workers = <<>>
    /\ putLog = <<>>
    /\ popLog = <<>>
    /\ persisted = {}
    /\ failed = {}
    /\ fetches = 0
    /\ playersOk = {}
    /\ playersFail = {}
    /\ prevFailed = {}
    /\ prevTree = <<{}, {}>>
    /\ retry = {}
    /\ faults = 0

CtorNext == setup_sessions \/ setup_proxies

\* The construction of a GetGames object.
CtorSpec == CtorInit /\ [][CtorNext]_vars

\* ------------------------------------------- get_month called by a client
\* A client calls get_month(y + '-' + m) on the object; yr and mo hold the
\* argument.
client_get_month ==
    /\ opc = "client"
    /\ calls < MaxCalls
    /\ calls' = calls + 1
    /\ \E y \in Years, m \in 1..NumMonths : yr' = y /\ mo' = m
    /\ opc' = "get_month"
    /\ UNCHANGED <<archive, soupOK, run, cpu_count, diskVars, selfVars, idx,
                   queueVars, histVars, prevVars, faults, threads, workers>>

\* get_month returns to the client that called it.
get_month_return_client ==
    /\ opc = "get_month_join"
    /\ idx = Len(threads)
    /\ opc' = "client"
    /\ UNCHANGED <<envVars, diskVars, selfVars, yr, mo, idx, queueVars,
                   histVars, prevVars, faults, threads, workers>>

\* A constructed object in the hands of a client, on an archive of at most
\* MaxLiveAnchors anchors.
ClientInit ==
    /\ archive \in Archives
    /\ Anchors(archive) <= MaxLiveAnchors
    /\ soupOK \in BOOLEAN
    /\ run = 1
    /\ cpu_count \in 1..NumCpus
    /\ calls = 0
    /\ sessions = Constructed(cpu_count)
    /\ dirs = {}
    /\ files = {}
    /\ year = None
    /\ month = None
    /\ tasks = <<>>
    /\ opc = "client"
    /\ yr = FirstYear
    /\ mo = 1
    /\ idx = 0
    /\ threads = <<>>
    /\ workers = <<>>
    /\ putLog = <<>>
    /\ popLog = <<>>
    /\ persisted = {}
    /\ failed = {}
    /\ fetches = 0
    /\ playersOk = {}
    /\ playersFail = {}
    /\ prevFailed = {}
    /\ prevTree = <<{}, {}>>
    /\ retry = {}
    /\ faults = 0

ClientNext ==
    \/ client_get_month
    \/ get_month
    \/ get_month_start
    \/ get_month_join
    \/ get_month_return_client
    \/ \E i \in 1..NumDays : ThreadStep(i)

\* The calls of get_month a client makes on one object, one after another.
ClientSpec == ClientInit /\ [][ClientNext]_vars

\* ------------------------------------------------------------------ claims
IsGame(item) == ~Falsy(item)

\* The tickets put in year y of this run that hold a game / a sentinel.
GameTickets(y) ==
    {t \in DOMAIN putLog : putLog[t].yr = y /\ IsGame(putLog[t].item)}
SentinelTickets(y) ==
    {t \in DOMAIN putLog : putLog[t].yr = y /\ ~IsGame(putLog[t].item)}

\* How often ticket t was popped in this run.
PopsOf(t) == Cardinality({k \in DOMAIN popLog : popLog[k].t = t})

\* The workers of the pool that hold a popped game (alive, or dead on it).
Holding == {w \in Workers : workers[w].pc \notin {"get", "done"}}

LiveWorkers == {w \in Workers : workers[w].pc \notin Finished}
LiveThreads == {i \in Threads : threads[i].pc \notin Finished}

PoolRunning == opc \in {"_get_games_start", "_get_games_join"}

\* C1 (queue termination).  Once _get_games has put its sentinels and
\* started its workers, every worker terminates: a started worker leads to
\* that worker finished (it broke out of its loop on a sentinel, or an
\* uncaught exception ended it).  And no queue entry is popped twice or held
\* by two workers.
C1_NoDoublePop ==
    /\ \A t \in DOMAIN putLog : PopsOf(t) <= 1
    /\ \A v, w \in Holding : v # w => workers[v].t # workers[w].t

C1_QueueTermination ==
    /\ []C1_NoDoublePop
    /\ \A w \in 1..NumCpus :
         (w \in Workers /\ PoolRunning)
           ~> (w \in Workers /\ workers[w].pc \in Finished)

\* C1 witness: a pool that has popped a game has been joined, every worker
\* of it finished.
C1_Witness ==
    /\ opc = "_get_games_terminate"
    /\ \E k \in DOMAIN popLog : IsGame(putLog[popLog[k].t].item)
    /\ \A w \in Workers : workers[w].pc \in Finished

\* The urls of the games put on the queue in this run.
PutUrls == {putLog[t].item : t \in {u \in DOMAIN putLog : IsGame(putLog[u].item)}}

\* C2 (dedup before enqueue).  Every put of a game url on the task queue
\* happens while the directory derived from the url's last five path
\* segments does not exist: no game whose directory exists is enqueued.
C2_DedupBeforeEnqueue ==
    [][(Len(putLog') = Len(putLog) + 1 /\ IsGame(putLog'[Len(putLog')].item))
         => DirOf(putLog'[Len(putLog')].item) \notin dirs]_vars

\* C2 witness: in a run that has enqueued a game, a day thread stands at the
\* check with a game whose directory exists.
C2_Witness ==
    /\ PutUrls # {}
    /\ \E i \in Threads :
         /\ threads[i].pc = "loop"
         /\ threads[i].games # <<>>
         /\ DirOf(Head(threads[i].games)) \in dirs

\* C3 (idempotent resume).  In a run that follows a complete run without any
\* failure, on the same archive, no game is enqueued, no worker fetches a
\* document, and the directory tree stays what the run before left.
C3_IdempotentResume ==
    (run > 1 /\ prevFailed = {}) =>
        /\ PutUrls = {}
        /\ fetches = 0
        /\ <<dirs, files>> = prevTree

\* C3 witness: the second run has returned after a first run that failed
\* nowhere and persisted a game.
C3_Witness ==
    /\ run > 1
    /\ prevFailed = {}
    /\ opc = "exit"
    /\ dirs # {}

\* C4 (at-most-once enqueue), as claimed: no game url is put on the task
\* queue twice in a run.
C4_AtMostOnceEnqueue ==
    \A a, b \in DOMAIN putLog :
        (a < b /\ IsGame(putLog[a].item)) => putLog[a].item # putLog[b].item

\* Whether _get_games has put all its sentinels for year y of this run.
SentinelsPut(y) ==
    \/ y < yr
    \/ y = yr /\ opc \in {"_get_games_start", "_get_games_join",
                          "_get_games_terminate"}

\* C5 (sentinel protocol).  For each year exactly one sentinel per worker is
\* put; a sentinel of a year is on the queue only when every day thread has
\* finished; every game put in a year precedes every sentinel of the year.
C5_SentinelProtocol ==
    /\ \A y \in Years :
         /\ Cardinality(SentinelTickets(y)) <= cpu_count
         /\ SentinelsPut(y) => Cardinality(SentinelTickets(y)) = cpu_count
         /\ \A a \in GameTickets(y), b \in SentinelTickets(y) : a < b
    /\ SentinelTickets(yr) # {} => LiveThreads = {}

\* C5 witness: in the second year, games were put and the pool is being
\* started behind the year's cpu_count sentinels.
C5_Witness ==
    /\ yr = FirstYear + 1
    /\ opc = "_get_games_start"
    /\ GameTickets(yr) # {}
    /\ Cardinality(SentinelTickets(yr)) = cpu_count

\* C6 (drain to completion), as claimed: when _get_games has joined its
\* workers in a run in which no fetch and no write failed, every game put in
\* the year was popped once and persisted, every sentinel of the year was
\* popped, and the queue is empty.
C6_DrainToCompletion ==
    (opc = "_get_games_terminate"
       /\ failed \cap {"listing", "fetch", "write"} = {}) =>
        /\ \A t \in GameTickets(yr) : PopsOf(t) = 1 /\ t \in persisted
        /\ \A t \in SentinelTickets(yr) : PopsOf(t) = 1
        /\ tasks = <<>>

\* C7 (year checkpoint).  Workers run only while _get_games starts and joins
\* them, after every day thread has finished; day threads run only inside
\* get_month, when every worker of the year before has terminated.
C7_YearCheckpoint ==
    /\ LiveWorkers # {} => (LiveThreads = {} /\ PoolRunning)
    /\ LiveThreads # {} =>
         (LiveWorkers = {} /\ opc \in {"get_month_start", "get_month_join"})

\* C7 witness: a day thread of the second year runs, the workers of the first
\* year all terminated.
C7_Witness ==
    /\ yr = FirstYear + 1
    /\ LiveThreads # {}
    /\ Workers # {}
    /\ \A w \in Workers : workers[w].pc \in Finished

MonthJoined == opc = "get_month_join" /\ idx = Len(threads)

\* Thread i returned from get_day with every game of its listing that had no
\* directory on the queue.
Discovered(i) ==
    /\ threads[i].pc = "done"
    /\ \A k \in DOMAIN GamesOf(threads[i].url) :
         \/ exists(DirOf(GamesOf(threads[i].url)[k]))
         \/ GamesOf(threads[i].url)[k] \in PutUrls

\* C9 (discovery failure isolation).  When the listing fetch of a day thread
\* has failed, get_month comes to have joined all its threads, and every
\* thread but those whose own fetch failed has returned with its new games
\* enqueued.
C9_DiscoveryIsolation ==
    (/\ opc \in {"get_month_start", "get_month_join"}
     /\ \E i \in Threads : threads[i].cause = "fetch")
      ~> (/\ MonthJoined
          /\ \A j \in Threads : threads[j].cause = "fetch" \/ Discovered(j))

\* C9 witness: get_month has joined a thread that died on its fetch and a
\* thread that enqueued a game.
C9_Witness ==
    /\ MonthJoined
    /\ \E i \in Threads : threads[i].cause = "fetch"
    /\ \E j \in Threads : Discovered(j) /\ GamesOf(threads[j].url) # <<>>

\* C10 (worker failure isolation), as claimed: when _get_games has joined a
\* pool of which one worker died on a fetch and another broke out on a
\* sentinel, no game is left on the queue, and every game the pool popped is
\* persisted, but for the games the dead workers held.
C10_WorkerIsolation ==
    (/\ opc = "_get_games_terminate"
     /\ \E w \in Workers : workers[w].cause = "fetch"
     /\ \E w \in Workers : workers[w].pc = "done") =>
        /\ \A k \in DOMAIN tasks : ~IsGame(tasks[k].item)
        /\ \A k \in DOMAIN popLog :
             (popLog[k].yr = yr /\ IsGame(putLog[popLog[k].t].item)) =>
                \/ popLog[k].t \in persisted
                \/ \E w \in Workers : /\ workers[w].pc = "dead"
                                      /\ workers[w].t = popLog[k].t

\* C11 (month enumeration), as claimed: while get_month('YYYY-MM') runs, a
\* thread it started has fetched the listing of its day of month MM of year
\* YYYY of the argument, and once all are started there is one thread per
\* day of that month.
C11_MonthEnumeration ==
    opc \in {"get_month_start", "get_month_join"} =>
        /\ opc = "get_month_join" =>
             Len(threads) = monthrange(MonthArg[1], MonthArg[2])
        /\ \A i \in Threads :
             threads[i].url # None =>
                threads[i].url = DayUrl(MonthArg[1], MonthArg[2],
                                        format02d(i))

\* The game urls C12 speaks of: home + 'year_Y/month_M/day_D/gid_X/'.
IsGameUrl(u) ==
    /\ Len(u) = Len(home) + 4
    /\ SubSeq(u, 1, Len(home) - 1) = SubSeq(home, 1, Len(home) - 1)
    /\ u[Len(u)] = <<>>
    /\ \A k \in 0..3 : u[Len(home) + k] # <<>>
    /\ <<u[Len(home)][1], u[Len(home) + 1][1], u[Len(home) + 2][1],
         u[Len(home) + 3][1]>> = <<"year_", "month_", "day_", "gid_">>

\* 'year_Y/month_M/day_D/gid_X' of such a url: its four segments behind home.
FourSegmentPath(u) == SubSeq(u, Len(home), Len(home) + 3)

\* 'year_Y/month_M/day_D/gid_X/' of such a url: the four segments and the
\* empty piece behind the last '/'.
SlashPath(u) == Append(FourSegmentPath(u), <<>>)

\* The workers that are past os.makedirs(directory) for their game.
PastMakedirs == {w \in Workers :
                   workers[w].pc \in {"write_players", "write_innings"}}

\* C12 (path derivation), as claimed: for every game url put on the queue
\* the dedup check computed the four-segment path
\* 'year_Y/month_M/day_D/gid_X', and that is the path the worker has made.
C12_PathDerivation ==
    /\ \A t \in DOMAIN putLog :
         IsGame(putLog[t].item) =>
            /\ IsGameUrl(putLog[t].item)
            /\ DirOf(putLog[t].item) = FourSegmentPath(putLog[t].item)
    /\ \A w \in PastMakedirs : FourSegmentPath(workers[w].game_url) \in dirs

\* C12, amended: the path computed for a game url
\* home + 'year_Y/month_M/day_D/gid_X/' is 'year_Y/month_M/day_D/gid_X/',
\* the four segments followed by a '/' (split('/') ends in an empty piece,
\* which is the fifth piece joined), by the dedup check and by the worker.
C12_PathWithSlash ==
    /\ \A t \in DOMAIN putLog :
         IsGame(putLog[t].item) =>
            /\ IsGameUrl(putLog[t].item)
            /\ DirOf(putLog[t].item) = SlashPath(putLog[t].item)
    /\ \A w \in PastMakedirs : SlashPath(workers[w].game_url) \in dirs
    /\ \A d \in dirs : Len(d) = 5 /\ d[5] = <<>>

\* C12 witness: a worker has made the directory of a game that a thread's
\* dedup check let through.
C12_Witness ==
    \E w \in PastMakedirs :
        /\ \E t \in DOMAIN putLog : putLog[t].item = workers[w].game_url
        /\ DirOf(workers[w].game_url) \in dirs

\* C13 (bounded discovery concurrency), as claimed: the number of live day
\* threads never exceeds mp.cpu_count().
C13_BoundedDiscovery == Cardinality(LiveThreads) <= cpu_count

\* C13, amended: the number of live day threads never exceeds the number of
\* days of the month get_month enumerates (one thread per day, all of them
\* started before the first is joined); it is not bounded by mp.cpu_count().
C13_OneThreadPerDay ==
    /\ Cardinality(LiveThreads) <= monthrange(year, month)
    /\ opc = "get_month_start" => Len(threads) = idx
    /\ opc = "get_month_join" => Len(threads) = monthrange(year, month)

\* C13 witness: a thread is live for every day of the month, more than
\* there are cores.
C13_Witness ==
    /\ opc = "get_month_join"
    /\ Cardinality(LiveThreads) = monthrange(year, month)
    /\ Cardinality(LiveThreads) > cpu_count

\* The day threads and the workers inside session.get(...).
FetchingThreads == {i \in Threads : threads[i].pc = "fetch"}
FetchingWorkers == {w \in Workers : workers[w].pc \in {"players", "innings"}}

\* C14 (session exclusivity by index), as claimed: no two day threads, and no
\* day thread and worker, are in a fetch through the session of one index.
C14_SessionExclusive ==
    /\ \A i, j \in FetchingThreads :
         i # j => threads[i].session_num # threads[j].session_num
    /\ \A i \in FetchingThreads : \A w \in FetchingWorkers :
         threads[i].session_num # workers[w].session_num

\* C14, amended: a day thread and a worker are never in a fetch at the same
\* time, and two workers in a fetch use sessions of different indices; two
\* day threads in a fetch use the session of one index only if their
\* positions in the month are congruent modulo mp.cpu_count() (which
\* happens in every month of more days than cores).
C14_SessionSharing ==
    /\ FetchingThreads = {} \/ FetchingWorkers = {}
    /\ \A v, w \in FetchingWorkers :
         v # w => workers[v].session_num # workers[w].session_num
    /\ \A i, j \in FetchingThreads :
         threads[i].session_num = threads[j].session_num =>
            (i - j) % cpu_count = 0

\* C14 witness: two day threads are in a fetch through the same session.
C14_Witness ==
    \E i, j \in FetchingThreads :
        i # j /\ threads[i].session_num = threads[j].session_num

\* C15 (sentinel stops the worker).  In every step, a worker that pops a
\* sentinel has returned from _get_game after the step, and a worker that
\* has returned on a sentinel takes no further step: its record stays as it
\* is for as long as the pool exists, so it pops, fetches and writes nothing
\* more, and consumes no second sentinel.
C15_SentinelStops ==
    [][\A w \in Workers :
         /\ (/\ workers[w].pc = "get"
             /\ Len(popLog') = Len(popLog) + 1
             /\ w \in DOMAIN workers'
             /\ workers'[w] # workers[w]
             /\ ~IsGame(Head(tasks).item)) => workers'[w].pc = "done"
         /\ (workers[w].pc = "done" /\ w \in DOMAIN workers') =>
                workers'[w] = workers[w]]_vars

\* C15 witness: a worker has returned on a sentinel while the queue still
\* holds items and another worker of the pool is at work on a game.
C15_Witness ==
    \E v, w \in Workers :
        /\ workers[w].pc = "done"
        /\ workers[v].pc \in {"players", "innings", "makedirs"}
        /\ tasks # <<>>

\* The documents on disk in directory d.
DocsIn(d) == {f \in files : f[1] = d}

C17_SessionIndex ==
    /\ \A i \in Threads :
         /\ threads[i].session_num = (i - 1) % cpu_count
         /\ threads[i].session_num + 1 \in DOMAIN sessions
    /\ \A w \in Workers :
         /\ workers[w].session_num = w - 1
         /\ workers[w].session_num + 1 \in DOMAIN sessions
    /\ Len(workers) <= cpu_count

\* C17 witness: the month had more days than the machine has cores, so a
\* day thread past the first cpu_count has fetched its listing, and the last
\* worker of the pool is in a fetch.
C17_Witness ==
    /\ \E i \in Threads : i > cpu_count /\ threads[i].url # None
    /\ \E w \in FetchingWorkers : w = cpu_count

\* C18 (session pool construction), as claimed: on a machine of any number
\* of cores the construction does not fail, and the constructed object has
\* one session per core, session i bound to the i-th port of all_proxies, no
\* two sessions to the same port.
C18_SessionPool ==
    /\ opc # "IndexError"
    /\ opc = "constructed" =>
         /\ Len(sessions) = cpu_count
         /\ \A i \in DOMAIN sessions :
              /\ i \in DOMAIN all_proxies
              /\ sessions[i].proxies = all_proxies[i]
         /\ \A i, j \in DOMAIN sessions :
              i # j => sessions[i].proxies # sessions[j].proxies

\* C19 (no stale sentinel across years), as claimed: when get_year is
\* entered for a year the queue holds no sentinel, and a sentinel is popped
\* only in the year it was put for.
C19_NoStaleSentinel ==
    /\ opc = "get_year" => \A k \in DOMAIN tasks : IsGame(tasks[k].item)
    /\ \A k \in DOMAIN popLog :
         ~IsGame(putLog[popLog[k].t].item) =>
            putLog[popLog[k].t].yr = popLog[k].yr

====
